---------------------------- MODULE Spec2Model ----------------------------
(***************************************************************************)
(* A model of myshell.c: the interactive loop shell(), the tokenizer       *)
(* parse_input, the expander expand_variable, the post-processor           *)
(* process_tokens, the built-ins, the launcher execute_command and the     *)
(* SIGCHLD handler on_child_exit.                                          *)
(*                                                                         *)
(* A C string is a sequence of one-character strings; a token list is a    *)
(* sequence of such sequences (the NULL end marker is the end of the       *)
(* sequence).                                                              *)
(***************************************************************************)
EXTENDS Integers, Sequences, FiniteSets, TLC

VARIABLES
    pc,          \* where the main thread is: "prompt", "read", "wait", "done";
                 \* for a function applied on its own: "call", "return"
    hpc,         \* where on_child_exit is: "idle" (not running), "loop"
    ret,         \* shell(): the value scanf returned in this cycle
    input,       \* shell(): the line read in this cycle
    tokens,      \* shell(): parse_input(input)
    argv,        \* execute_command(): the tokens handed to execvp
    background,  \* execute_command(): the background flag
    pid,         \* execute_command(): what fork() returned (0: no call made)
    diag,        \* what this cycle wrote to stderr
    out,         \* what this cycle wrote to stdout after the prompt
    env,         \* the process environment: name -> value
    cwd,         \* the working directory
    children,    \* every child forked so far, in order: its state ("running",
                 \* "zombie", "reaped"), the flag it was launched with, its
                 \* wait status, who collected it, its environment
    sigpending,  \* a SIGCHLD is pending for the shell process
    log,         \* the number of lines appended to log.txt
    errno,       \* the error indicator of the shell process
    saved_errno, \* on_child_exit(): its local, while the handler runs
    stdin,       \* the unread characters of standard input, where scanf is
                 \* followed character by character (the sessions draw each
                 \* line as it is read)
    frame,       \* the locals of a function that is followed step by step
    returned     \* what the function applied on its own returned

vars == <<pc, hpc, ret, input, tokens, argv, background, pid, diag, out,
          env, cwd, children, sigpending, log, errno, saved_errno, stdin,
          frame, returned>>

(***************************************************************************)
(* Characters.                                                             *)
(***************************************************************************)
SP == " "
TAB == "\t"
DQ == "\""
DOLLAR == "$"

Letters ==
    {"a","b","c","d","e","f","g","h","i","j","k","l","m",
     "n","o","p","q","r","s","t","u","v","w","x","y","z",
     "A","B","C","D","E","F","G","H","I","J","K","L","M",
     "N","O","P","Q","R","S","T","U","V","W","X","Y","Z"}

Digits == {"0","1","2","3","4","5","6","7","8","9"}

\* <ctype.h> isalnum in the C locale.
isalnum(c) == c \in Letters \cup Digits

\* A test that forgets the underscore.
IsNameCharAlnum(c) == isalnum(c)

\* The test of the while loop of expand_variable.
IsNameChar(c) == c = "_" \/ isalnum(c)

\* The test of parse_input for a separator character.
IsBlank(c) == c = SP \/ c = TAB

\* A null pointer; a non-null char* p is <<s>>, the string it points to.
NULL == <<>>

(***************************************************************************)
(* parse_input: the tokenizer.                                             *)
(***************************************************************************)
RECURSIVE ParseLoop(_, _, _, _, _)
ParseLoop(line, i, toks, current_token, in_quotes) ==
    IF i > Len(line)
    THEN IF Len(current_token) > 0 THEN Append(toks, current_token) ELSE toks
    ELSE LET c == line[i] IN
         IF c = DQ
         THEN ParseLoop(line, i + 1, toks, current_token, ~in_quotes)
         ELSE IF IsBlank(c) /\ ~in_quotes
         THEN IF Len(current_token) > 0
              THEN ParseLoop(line, i + 1, Append(toks, current_token), <<>>, in_quotes)
              ELSE ParseLoop(line, i + 1, toks, current_token, in_quotes)
         ELSE ParseLoop(line, i + 1, toks, Append(current_token, c), in_quotes)

\* A tokenizer that never enters quotes.
parse_input_unquoted(line) == ParseLoop(SelectSeq(line, LAMBDA c : c # DQ), 1, <<>>, <<>>, FALSE)

parse_input(line) == ParseLoop(line, 1, <<>>, <<>>, FALSE)

(***************************************************************************)
(* expand_variable: $NAME expansion of one token under environment e.      *)
(***************************************************************************)
\* getenv: a pointer to the value, or NULL.
getenv(e, name) == IF name \in DOMAIN e THEN <<e[name]>> ELSE NULL

\* The while loop that copies the name: <<index after the loop, varname>>.
RECURSIVE ScanName(_, _, _)
ScanName(token, i, varname) ==
    IF i <= Len(token) /\ IsNameChar(token[i])
    THEN ScanName(token, i + 1, Append(varname, token[i]))
    ELSE <<i, varname>>

RECURSIVE ExpandLoop(_, _, _, _)
ExpandLoop(token, i, result, e) ==
    IF i > Len(token)
    THEN result
    ELSE IF token[i] = DOLLAR
    THEN LET scanned == ScanName(token, i + 1, <<>>)
             back == scanned[1] - 1
             p == getenv(e, scanned[2])
             value == IF p = NULL THEN <<>> ELSE p[1]
         IN  ExpandLoop(token, back + 1, result \o value, e)
    ELSE ExpandLoop(token, i + 1, Append(result, token[i]), e)

expand_variable(token, e) == ExpandLoop(token, 1, <<>>, e)

(***************************************************************************)
(* process_tokens: expand every token, re-split on blanks.                 *)
(***************************************************************************)
\* A test that looks for the space only.
HasSpace(s) == \E i \in 1..Len(s) : s[i] = SP

\* strchr(expanded, ' ') != NULL || strchr(expanded, '\t') != NULL
HasBlank(s) == \E i \in 1..Len(s) : IsBlank(s[i])

\* The strtok(temp, " \t") loop: the words of s, in order.
RECURSIVE StrtokLoop(_, _, _, _)
StrtokLoop(s, i, word, words) ==
    IF i > Len(s)
    THEN IF Len(word) > 0 THEN Append(words, word) ELSE words
    ELSE IF IsBlank(s[i])
    THEN IF Len(word) > 0
         THEN StrtokLoop(s, i + 1, <<>>, Append(words, word))
         ELSE StrtokLoop(s, i + 1, word, words)
    ELSE StrtokLoop(s, i + 1, Append(word, s[i]), words)

RECURSIVE ProcessLoop(_, _, _, _)
ProcessLoop(toks, i, new_tokens, e) ==
    IF i > Len(toks)
    THEN new_tokens
    ELSE LET expanded == expand_variable(toks[i], e) IN
         IF HasBlank(expanded)
         THEN ProcessLoop(toks, i + 1, new_tokens \o StrtokLoop(expanded, 1, <<>>, <<>>), e)
         ELSE ProcessLoop(toks, i + 1, Append(new_tokens, expanded), e)

process_tokens(toks, e) == ProcessLoop(toks, 1, <<>>, e)

(***************************************************************************)
(* Words the shell compares tokens with, and the constants of the source.  *)
(***************************************************************************)
W_exit == <<"e","x","i","t">>
W_cd == <<"c","d">>
W_echo == <<"e","c","h","o">>
W_export == <<"e","x","p","o","r","t">>
W_HOME == <<"H","O","M","E">>
W_tilde == <<"~">>
W_amp == <<"&">>
W_root == <<"/">>

MAX_LINE == 1024
INIT_TOKENS == 100

\* The size of expand_variable's char varname[128].
VARNAME_SIZE == 128

\* The field width of the scanf format "%1023[^\n]".
ScanWidth == 1023

\* The values of errno the model tells apart: 0 and the errors of fork,
\* waitpid, chdir, setenv and open.
NoError == "0"
EAGAIN == "EAGAIN"
ECHILD == "ECHILD"
ENOENT == "ENOENT"
EINVAL == "EINVAL"
EACCES == "EACCES"

\* One message on stderr: its text and, for the signal diagnostic, the number.
Msg(text, n) == [msg |-> text, n |-> n]

(***************************************************************************)
(* The file system seen by chdir: the directories that exist.              *)
(***************************************************************************)
Dirs == {W_root, <<"/","h">>, <<"/","h","/","d">>}

\* chdir(path) from directory dir: the new directory, or NULL on failure.
chdir(dir, path) ==
    LET target == IF Len(path) > 0 /\ path[1] = "/" THEN path
                  ELSE IF dir = W_root THEN dir \o path
                  ELSE dir \o W_root \o path
    IN  IF Len(path) > 0 /\ target \in Dirs THEN <<target>> ELSE NULL

\* The first n characters of s (snprintf and strncpy into new_path).
Truncate(s, n) == IF Len(s) <= n THEN s ELSE SubSeq(s, 1, n)

\* strchr(s, c): the index of the first c in s, or 0 for NULL.
strchr(s, c) ==
    IF \E i \in 1..Len(s) : s[i] = c
    THEN CHOOSE i \in 1..Len(s) : s[i] = c /\ \A k \in 1..(i - 1) : s[k] # c
    ELSE 0

\* setenv(var, value, 1): the new environment, or NULL on EINVAL.
setenv(e, var, value) ==
    IF Len(var) = 0 \/ strchr(var, "=") # 0
    THEN NULL
    ELSE <<[n \in DOMAIN e \cup {var} |-> IF n = var THEN value ELSE e[n]]>>

(***************************************************************************)
(* execute_shell_builtin: the state after the built-in toks[1] has run in  *)
(* environment e and directory dir.                                        *)
(***************************************************************************)
\* err is the errno a failed call left, as a pointer: NULL if no call failed.
Effect(e, dir, o, d, err) == [env |-> e, cwd |-> dir, out |-> o, diag |-> d, errno |-> err]

\* A path for ~suffix that forgets the suffix.
TildePathHome(home, arg) == home

\* snprintf(new_path, ..., "%s%s", home, tokens[1] + 1)
TildePath(home, arg) == home \o Tail(arg)

builtin_cd(toks, e, dir) ==
    IF Len(toks) = 1 \/ toks[2] = W_tilde
    THEN LET p == getenv(e, W_HOME)
             home == IF p = NULL THEN W_root ELSE p[1]
             r == chdir(dir, home)
         IN  IF r = NULL
             THEN Effect(e, dir, <<>>, <<Msg("cd", 0)>>, <<ENOENT>>)
             ELSE Effect(e, r[1], <<>>, <<>>, NULL)
    ELSE IF toks[2][1] = "~"
    THEN LET p == getenv(e, W_HOME) IN
         IF p = NULL
         THEN Effect(e, dir, <<>>, <<Msg("HOME not set", 0)>>, NULL)
         ELSE LET new_path == Truncate(TildePath(p[1], toks[2]), MAX_LINE - 1)
                  r == chdir(dir, new_path)
              IN  IF r = NULL
                  THEN Effect(e, dir, <<>>, <<Msg("cd", 0)>>, <<ENOENT>>)
                  ELSE Effect(e, r[1], <<>>, <<>>, NULL)
    ELSE LET new_path == Truncate(toks[2], MAX_LINE - 1)
             r == chdir(dir, new_path)
         IN  IF r = NULL
             THEN Effect(e, dir, <<>>, <<Msg("cd", 0)>>, <<ENOENT>>)
             ELSE Effect(e, r[1], <<>>, <<>>, NULL)

\* The strcat loop of echo: the expansions of toks[i..], one space between.
RECURSIVE EchoLoop(_, _, _, _)
EchoLoop(toks, i, buffer, e) ==
    IF i > Len(toks)
    THEN buffer
    ELSE LET expanded == expand_variable(toks[i], e)
             sep == IF i + 1 <= Len(toks) THEN <<SP>> ELSE <<>>
         IN  EchoLoop(toks, i + 1, buffer \o expanded \o sep, e)

\* An echo that post-processes its arguments as a command's are.
builtin_echo_resplit(toks, e, dir) ==
    IF Len(toks) >= 2
    THEN Effect(e, dir,
                <<EchoLoop(<<toks[1]>> \o process_tokens(Tail(toks), e), 2, <<>>, <<>>)
                      \o <<"\n">>>>,
                <<>>, NULL)
    ELSE Effect(e, dir, <<>>, <<>>, NULL)

builtin_echo(toks, e, dir) ==
    IF Len(toks) >= 2
    THEN Effect(e, dir, <<EchoLoop(toks, 2, <<>>, e) \o <<"\n">>>>, <<>>, NULL)
    ELSE Effect(e, dir, <<>>, <<>>, NULL)

\* An export that splits its argument at the last '=' (strrchr).
builtin_export_last(toks, e, dir) ==
    IF Len(toks) >= 2
    THEN LET eqs == {i \in 1..Len(toks[2]) : toks[2][i] = "="} IN
         IF eqs = {}
         THEN Effect(e, dir, <<>>, <<Msg("export: invalid argument", 0)>>, NULL)
         ELSE LET eq == CHOOSE i \in eqs : \A k \in eqs : k <= i
                  var == SubSeq(toks[2], 1, eq - 1)
                  value == SubSeq(toks[2], eq + 1, Len(toks[2]))
                  r == setenv(e, var, value)
              IN  IF r = NULL
                  THEN Effect(e, dir, <<>>, <<Msg("export", 0)>>, <<EINVAL>>)
                  ELSE Effect(r[1], dir, <<>>, <<>>, NULL)
    ELSE Effect(e, dir, <<>>, <<Msg("export: missing argument", 0)>>, NULL)

\* An export that takes a bare NAME as NAME= (the empty value).
builtin_export_bare(toks, e, dir) ==
    IF Len(toks) >= 2
    THEN LET eq == strchr(toks[2], "=")
             var == IF eq = 0 THEN toks[2] ELSE SubSeq(toks[2], 1, eq - 1)
             value == IF eq = 0 THEN <<>> ELSE SubSeq(toks[2], eq + 1, Len(toks[2]))
             r == setenv(e, var, value)
         IN  IF r = NULL
             THEN Effect(e, dir, <<>>, <<Msg("export", 0)>>, <<EINVAL>>)
             ELSE Effect(r[1], dir, <<>>, <<>>, NULL)
    ELSE Effect(e, dir, <<>>, <<Msg("export: missing argument", 0)>>, NULL)

builtin_export(toks, e, dir) ==
    IF Len(toks) >= 2
    THEN LET eq == strchr(toks[2], "=") IN
         IF eq = 0
         THEN Effect(e, dir, <<>>, <<Msg("export: invalid argument", 0)>>, NULL)
         ELSE LET var == SubSeq(toks[2], 1, eq - 1)
                  value == SubSeq(toks[2], eq + 1, Len(toks[2]))
                  r == setenv(e, var, value)
              IN  IF r = NULL
                  THEN Effect(e, dir, <<>>, <<Msg("export", 0)>>, <<EINVAL>>)
                  ELSE Effect(r[1], dir, <<>>, <<>>, NULL)
    ELSE Effect(e, dir, <<>>, <<Msg("export: missing argument", 0)>>, NULL)

execute_shell_builtin(toks, e, dir) ==
    IF toks[1] = W_cd THEN builtin_cd(toks, e, dir)
    ELSE IF toks[1] = W_echo THEN builtin_echo(toks, e, dir)
    ELSE IF toks[1] = W_export THEN builtin_export(toks, e, dir)
    ELSE Effect(e, dir, <<>>, <<>>, NULL)

\* The test of shell() that sends a line to execute_shell_builtin.
IsBuiltin(toks) == toks[1] = W_cd \/ toks[1] = W_echo \/ toks[1] = W_export

\* The test of shell() that ends the loop.
IsExit(toks) == toks[1] = W_exit

(***************************************************************************)
(* The background flag and the argv of shell(), from processed_tokens.     *)
(***************************************************************************)
BackgroundFlag(processed_tokens) ==
    LET count == Len(processed_tokens) IN
    count > 0 /\ processed_tokens[count] = W_amp

CommandArgv(processed_tokens) ==
    IF BackgroundFlag(processed_tokens)
    THEN SubSeq(processed_tokens, 1, Len(processed_tokens) - 1)
    ELSE processed_tokens

(***************************************************************************)
(* Wait statuses, as <sys/wait.h> encodes and decodes them.                *)
(***************************************************************************)
ExitedWith(code) == code * 256
KilledBy(sig) == sig
WIFSIGNALED(st) == (st % 128) # 0 /\ (st % 128) # 127
WTERMSIG(st) == st % 128

(***************************************************************************)
(* Bounds of the model, and what the outside world may do.                 *)
(***************************************************************************)
\* The number of children a session of command lines may fork; fork() fails
\* beyond it.
MaxChildren == 2

\* The same, for the sessions that also run export.
MaxSessionChildren == 1

\* The same, for the sessions of built-ins.
MaxBuiltinChildren == 1

\* The statuses a child may terminate with: exit(0), exit(EXIT_FAILURE) (the
\* failed execvp of the child branch), killed by SIGKILL, killed by SIGTERM.
TermStatuses == {ExitedWith(0), ExitedWith(1), KilledBy(9), KilledBy(15)}

\* The environment the shell starts with.
InitEnv == [n \in {W_HOME} |-> <<"/","h">>]

\* The lines the user may type (without the newline): one foreground
\* command, one background command, exit.
JobLines ==
    { <<"e","x","i","t">>,
      <<"x">>,
      <<"x"," ","&">> }

\* The lines the user may type: commands only.
CommandLines ==
    JobLines \cup
    { <<"&">>,
      <<"$","A">> }

\* The lines the user may type: commands, exports and blank lines.
Lines ==
    CommandLines \cup
    { <<" ">>,
      <<"e","x","i","t"," ","x">>,
      <<"e","x","p","o","r","t"," ","A","=","e","x","i","t">>,
      <<"e","x","p","o","r","t"," ","A","=","a","=","$","A">>,
      <<"e","x","p","o","r","t"," ","A","-","=","x">>,
      <<"e","x","p","o","r","t"," ","=","x">> }

\* The lines the user may type: the built-ins in all their forms, one
\* background command, exit.
BuiltinLines ==
    { <<"e","x","i","t">>,
      <<"x"," ","&">>,
      <<"c","d">>,
      <<"c","d"," ","~">>,
      <<"c","d"," ","~","/","d">>,
      <<"c","d"," ","/","t">>,
      <<"c","d"," ","d"," ","&">>,
      <<"c","d"," ","/","h">>,
      <<"e","c","h","o">>,
      <<"e","c","h","o"," "," ","$","A"," ","b"," ","&">>,
      <<"e","c","h","o"," ",DQ,"a"," "," ","b",DQ,"$","A">>,
      <<"e","x","p","o","r","t">>,
      <<"e","x","p","o","r","t"," ","A"," ","&">>,
      <<"e","x","p","o","r","t"," ","A","=",DQ,"x"," ",TAB,"y",DQ," ","&">> }

\* The environments a session of built-ins may start in: HOME an existing
\* directory, HOME unset, HOME a directory that does not exist.
StartEnvs ==
    { InitEnv,
      <<>>,
      [n \in {W_HOME} |-> <<"/","t">>] }

(***************************************************************************)
(* The state after construction: main() has installed the handler and      *)
(* setup_environment() has changed to "/".                                 *)
(***************************************************************************)
Init ==
    /\ pc = "prompt"
    /\ hpc = "idle"
    /\ ret = 0
    /\ input = <<>>
    /\ tokens = <<>>
    /\ argv = <<>>
    /\ background = FALSE
    /\ pid = 0
    /\ diag = <<>>
    /\ out = <<>>
    /\ env = InitEnv
    /\ cwd = W_root
    /\ children = <<>>
    /\ sigpending = FALSE
    /\ log = 0
    /\ errno = NoError
    /\ saved_errno = NoError
    /\ stdin = <<>>
    /\ frame = <<>>
    /\ returned = <<>>

\* The children forked so far: child c is the c-th one forked.
Forked == DOMAIN children

\* The main thread runs only while the handler is not on its stack.
MainRuns == hpc = "idle"

(***************************************************************************)
(* shell(): one action for each way through an iteration of the loop. L is *)
(* the set of lines the user may type.                                     *)
(***************************************************************************)
\* The top of the loop: getcwd, the prompt, fflush; then scanf blocks. The
\* locals of the iteration before are dead: they are written before read.
Prompt ==
    /\ pc = "prompt" /\ MainRuns
    /\ pc' = "read"
    /\ ret' = 0 /\ input' = <<>> /\ tokens' = <<>> /\ argv' = <<>>
    /\ background' = FALSE /\ pid' = 0 /\ diag' = <<>> /\ out' = <<>>
    /\ UNCHANGED <<errno, saved_errno, stdin, frame, returned, hpc, env, cwd, children,
                   sigpending, log>>

\* scanf matches nothing: an empty line (0) or the end of input (EOF, -1).
ReadNothing ==
    /\ pc = "read" /\ MainRuns
    /\ \E r \in {0, -1} : ret' = r
    /\ pc' = "prompt"
    /\ UNCHANGED <<errno, saved_errno, stdin, frame, returned, hpc, input, tokens, argv,
                   background, pid, diag, out, env, cwd, children, sigpending, log>>

\* A shell that looks for exit in the expanded first token.
DispatchExpanded(toks) ==
    IF toks = <<>> THEN "skip"
    ELSE IF expand_variable(toks[1], env) = W_exit THEN "exit"
    ELSE IF IsBuiltin(toks) THEN "builtin"
    ELSE "command"

\* A shell that looks at a trailing & before it looks for a built-in.
DispatchAmpFirst(toks) ==
    IF toks = <<>> THEN "skip"
    ELSE IF IsExit(toks) THEN "exit"
    ELSE IF toks[Len(toks)] = W_amp THEN "command"
    ELSE IF IsBuiltin(toks) THEN "builtin"
    ELSE "command"

\* Where shell() sends the token list of a line: "skip" (no token), "exit",
\* "builtin" or "command".
Dispatch(toks) ==
    IF toks = <<>> THEN "skip"
    ELSE IF IsExit(toks) THEN "exit"
    ELSE IF IsBuiltin(toks) THEN "builtin"
    ELSE "command"

\* A line of blanks and quotes only: tokens[0] == NULL.
ReadNoToken(L) ==
    /\ pc = "read" /\ MainRuns
    /\ \E line \in L :
         /\ Dispatch(parse_input(line)) = "skip"
         /\ ret' = 1 /\ input' = line /\ tokens' = parse_input(line)
    /\ pc' = "prompt"
    /\ UNCHANGED <<errno, saved_errno, stdin, frame, returned, hpc, argv, background,
                   pid, diag, out, env, cwd, children, sigpending, log>>

\* strcmp(tokens[0], "exit") == 0: break, and main returns 0.
ReadExit(L) ==
    /\ pc = "read" /\ MainRuns
    /\ \E line \in L :
         /\ Dispatch(parse_input(line)) = "exit"
         /\ ret' = 1 /\ input' = line /\ tokens' = parse_input(line)
    /\ pc' = "done"
    /\ UNCHANGED <<errno, saved_errno, stdin, frame, returned, hpc, argv, background,
                   pid, diag, out, env, cwd, children, sigpending, log>>

\* cd, echo or export: execute_shell_builtin(tokens), then continue.
ReadBuiltin(L) ==
    /\ pc = "read" /\ MainRuns
    /\ \E line \in L :
         LET toks == parse_input(line) IN
         /\ Dispatch(toks) = "builtin"
         /\ ret' = 1 /\ input' = line /\ tokens' = toks
         /\ LET after == execute_shell_builtin(toks, env, cwd) IN
            /\ env' = after.env
            /\ cwd' = after.cwd
            /\ out' = after.out
            /\ diag' = after.diag
            /\ errno' = IF after.errno = NULL THEN errno ELSE after.errno[1]
    /\ pc' = "prompt"
    /\ UNCHANGED <<saved_errno, stdin, frame, returned, hpc, argv, background, pid,
                   children, sigpending, log>>

\* Any other line, fork() fails: perror("fork") and execute_command returns.
ReadCommandForkFails(L) ==
    /\ pc = "read" /\ MainRuns
    /\ \E line \in L :
         LET toks == parse_input(line)
             processed_tokens == process_tokens(toks, env)
         IN
         /\ Dispatch(toks) = "command"
         /\ ret' = 1 /\ input' = line /\ tokens' = toks
         /\ background' = BackgroundFlag(processed_tokens)
         /\ argv' = CommandArgv(processed_tokens)
    /\ pid' = -1
    /\ diag' = <<Msg("fork", 0)>>
    /\ errno' = EAGAIN
    /\ pc' = "prompt"
    /\ UNCHANGED <<saved_errno, stdin, frame, returned, hpc, out, env, cwd, children,
                   sigpending, log>>

\* A wait that does not block (WNOHANG, or an interrupted call not restarted).
WaitpidNoBlock(c) == TRUE

\* waitpid(pid, &status, 0) may return: the child is no longer running.
WaitpidReturns(c) == children[c].state # "running"

\* A launcher that waits whatever the flag.
AfterForkAlwaysWait(bg) == "wait"

\* Where execute_command goes after fork() returned a child to the parent.
AfterFork(bg) == IF bg THEN "prompt" ELSE "wait"

\* Any other line, fork() succeeds (at most n times): the child inherits the
\* environment and calls execvp; the parent returns (background) or enters
\* waitpid.
ReadCommand(L, n) ==
    /\ pc = "read" /\ MainRuns
    /\ Cardinality(Forked) < n
    /\ \E line \in L :
         LET toks == parse_input(line)
             processed_tokens == process_tokens(toks, env)
             c == Cardinality(Forked) + 1
         IN
         /\ Dispatch(toks) = "command"
         /\ ret' = 1 /\ input' = line /\ tokens' = toks
         /\ background' = BackgroundFlag(processed_tokens)
         /\ argv' = CommandArgv(processed_tokens)
         /\ pid' = c
         /\ children' = Append(children,
                [state |-> "running", bg |-> BackgroundFlag(processed_tokens),
                 st |-> 0, by |-> "nobody", env |-> env])
         /\ pc' = AfterFork(BackgroundFlag(processed_tokens))
    /\ UNCHANGED <<errno, saved_errno, stdin, frame, returned, hpc, diag, out, env, cwd,
                   sigpending, log>>

\* What the launcher writes to stderr once waitpid has returned for child c.
WaitDiagnostic(c) ==
    IF children[c].state = "reaped"
    THEN <<Msg("waitpid", 0)>>
    ELSE IF WIFSIGNALED(children[c].st)
    THEN <<Msg("Child terminated abnormally by signal", WTERMSIG(children[c].st))>>
    ELSE <<>>

\* The foreground wait returns: with the child's status if the child is still
\* to be collected, with -1 (ECHILD) if the handler collected it already.
WaitReturn ==
    /\ pc = "wait" /\ MainRuns
    /\ WaitpidReturns(pid)
    /\ diag' = WaitDiagnostic(pid)
    /\ children' = [children EXCEPT ![pid] =
           IF @.state = "zombie"
           THEN [@ EXCEPT !.state = "reaped", !.by = "launcher"]
           ELSE @]
    /\ errno' = IF children[pid].state = "reaped" THEN ECHILD ELSE errno
    /\ pc' = "prompt"
    /\ UNCHANGED <<saved_errno, stdin, frame, returned, hpc, ret, input, tokens, argv,
                   background, pid, out, env, cwd, sigpending, log>>

(***************************************************************************)
(* A child: it runs (or fails to exec) and terminates; the kernel makes it *)
(* a zombie and raises SIGCHLD for the shell.                              *)
(***************************************************************************)
ChildTerminates ==
    /\ pc # "done"
    /\ \E c \in Forked, st \in TermStatuses :
         /\ children[c].state = "running"
         /\ children' = [children EXCEPT ![c] =
                [@ EXCEPT !.state = "zombie", !.st = st, !.env = <<>>]]
    /\ sigpending' = TRUE
    /\ UNCHANGED <<errno, saved_errno, stdin, frame, returned, pc, hpc, ret, input,
                   tokens, argv, background, pid, diag, out, env, cwd, log>>

(***************************************************************************)
(* on_child_exit, installed by signal(SIGCHLD, on_child_exit): SIGCHLD is  *)
(* blocked while it runs and interrupted system calls are restarted.       *)
(***************************************************************************)
\* The kernel delivers the pending SIGCHLD: the handler starts.
Deliver ==
    /\ sigpending /\ hpc = "idle" /\ pc # "done"
    /\ hpc' = "loop"
    /\ sigpending' = FALSE
    /\ saved_errno' = errno
    /\ UNCHANGED <<errno, stdin, frame, returned, pc, ret, input, tokens, argv,
                   background, pid, diag, out, env, cwd, children, log>>

\* The children waitpid(-1, &status, WNOHANG) may return.
Collectable == {c \in Forked : children[c].state = "zombie"}

\* A handler that collects one child for each signal (if, not while).
HandlerCollectsOnce == "idle"

\* Where the handler goes after collecting and logging one child.
HandlerAfterCollect == "loop"

\* One iteration of the while loop: a child is collected, log.txt is opened
\* (which may fail) and, if it was opened, one line is written.
HandlerCollects ==
    /\ hpc = "loop"
    /\ \E c \in Collectable :
         children' = [children EXCEPT ![c] =
             [@ EXCEPT !.state = "reaped", !.by = "reaper"]]
    /\ \E opened \in BOOLEAN :
         /\ log' = IF opened THEN log + 1 ELSE log
         /\ errno' = IF opened THEN errno ELSE EACCES
    /\ hpc' = HandlerAfterCollect
    /\ UNCHANGED <<saved_errno, stdin, frame, returned, pc, ret, input, tokens, argv,
                   background, pid, diag, out, env, cwd, sigpending>>

\* A handler that leaves errno as its last call set it.
ErrnoNotRestored(after_wait) == after_wait

\* errno = saved_errno, the last statement of the handler.
ErrnoAtReturn(after_wait) == saved_errno

\* waitpid returns 0 (children are left, none has terminated) or -1 with
\* ECHILD (no child is left): the loop ends, errno is restored, the handler
\* returns to whatever it interrupted.
HandlerReturns ==
    /\ hpc = "loop"
    /\ Collectable = {}
    /\ LET left == {c \in Forked : children[c].state = "running"}
           after_wait == IF left = {} THEN ECHILD ELSE errno
       IN  errno' = ErrnoAtReturn(after_wait)
    /\ saved_errno' = NoError
    /\ hpc' = "idle"
    /\ UNCHANGED <<stdin, frame, returned, pc, ret, input, tokens, argv, background,
                   pid, diag, out, env, cwd, children, sigpending, log>>

(***************************************************************************)
(* Spec: a session of commands and built-ins.                              *)
(***************************************************************************)
Next ==
    \/ Prompt
    \/ ReadNothing
    \/ ReadNoToken(Lines)
    \/ ReadExit(Lines)
    \/ ReadBuiltin(Lines)
    \/ ReadCommandForkFails(Lines)
    \/ ReadCommand(Lines, MaxSessionChildren)
    \/ WaitReturn
    \/ ChildTerminates
    \/ Deliver
    \/ HandlerCollects
    \/ HandlerReturns

Spec == Init /\ [][Next]_vars

(***************************************************************************)
(* BuiltinSpec: a session of built-ins and background commands, started in *)
(* any of the environments StartEnvs.                                      *)
(***************************************************************************)
BuiltinInit ==
    /\ pc = "prompt"
    /\ hpc = "idle"
    /\ ret = 0
    /\ input = <<>>
    /\ tokens = <<>>
    /\ argv = <<>>
    /\ background = FALSE
    /\ pid = 0
    /\ diag = <<>>
    /\ out = <<>>
    /\ env \in StartEnvs
    /\ cwd = W_root
    /\ children = <<>>
    /\ sigpending = FALSE
    /\ log = 0
    /\ errno = NoError
    /\ saved_errno = NoError
    /\ stdin = <<>>
    /\ frame = <<>>
    /\ returned = <<>>

BuiltinNext ==
    \/ Prompt
    \/ ReadNothing
    \/ ReadExit(BuiltinLines)
    \/ ReadBuiltin(BuiltinLines)
    \/ ReadCommandForkFails(BuiltinLines)
    \/ ReadCommand(BuiltinLines, MaxBuiltinChildren)
    \/ ChildTerminates
    \/ Deliver
    \/ HandlerCollects
    \/ HandlerReturns

BuiltinSpec == BuiltinInit /\ [][BuiltinNext]_vars

(***************************************************************************)
(* ProcSpec: a session of command lines, with more children.               *)
(***************************************************************************)
ProcNext ==
    \/ Prompt
    \/ ReadNothing
    \/ ReadExit(CommandLines)
    \/ ReadCommandForkFails(CommandLines)
    \/ ReadCommand(CommandLines, MaxChildren)
    \/ WaitReturn
    \/ ChildTerminates
    \/ Deliver
    \/ HandlerCollects
    \/ HandlerReturns

ProcSpec == Init /\ [][ProcNext]_vars

(***************************************************************************)
(* FairJobSpec: a session of foreground and background commands in which   *)
(* the kernel delivers a pending SIGCHLD to the live shell and the         *)
(* handler, once started, runs on to its return.                           *)
(***************************************************************************)
JobNext ==
    \/ Prompt
    \/ ReadNothing
    \/ ReadExit(JobLines)
    \/ ReadCommandForkFails(JobLines)
    \/ ReadCommand(JobLines, MaxChildren)
    \/ WaitReturn
    \/ ChildTerminates
    \/ Deliver
    \/ HandlerCollects
    \/ HandlerReturns

FairJobSpec ==
    /\ Init /\ [][JobNext]_vars
    /\ WF_vars(Deliver)
    /\ WF_vars(HandlerCollects)
    /\ WF_vars(HandlerReturns)

(***************************************************************************)
(* The functions on their own: the argument is drawn at the start, one     *)
(* step applies the function.                                              *)
(***************************************************************************)
\* The longest line, and the longest token, a function is applied to.
MaxLineLen == 5
MaxTokenLen == 5

\* The strings of at most n characters of chars.
StringsUpTo(chars, n) == UNION {[1..k -> chars] : k \in 0..n}

\* The characters of the lines parse_input is applied to.
LineChars == {"a", "b", SP, TAB, DQ}

\* The characters of the tokens expand_variable is applied to.
TokenChars == {"a", "_", DOLLAR, "/"}

\* The environments expand_variable is applied in.
Environments ==
    { <<>>,
      (<<"a">> :> <<"x">>) @@ (<<"a","_">> :> <<"y"," ","z">>),
      (<<"a">> :> <<"$","_">>) @@ (<<"_">> :> <<"w">>) @@ (<<"a","a">> :> <<>>) }

\* Everything but the argument and the result is as after construction.
FunctionInit(line, toks, e) ==
    /\ pc = "call"
    /\ input = line /\ tokens = toks /\ env = e
    /\ returned = <<>>
    /\ hpc = "idle" /\ ret = 1 /\ argv = <<>> /\ background = FALSE /\ pid = 0
    /\ diag = <<>> /\ out = <<>> /\ cwd = W_root /\ children = <<>>
    /\ sigpending = FALSE /\ log = 0
    /\ errno = NoError /\ saved_errno = NoError /\ stdin = <<>> /\ frame = <<>>

FunctionReturns(value) ==
    /\ pc = "call"
    /\ returned' = value
    /\ pc' = "return"
    /\ UNCHANGED <<hpc, ret, input, tokens, argv, background, pid, diag, out,
                   env, cwd, children, sigpending, log, errno, saved_errno,
                   stdin, frame>>

\* TokSpec: parse_input applied to every line of at most MaxLineLen characters
\* (scanf returns 1 only for a line of at least one character).
TokInit ==
    \E line \in StringsUpTo(LineChars, MaxLineLen) \ {<<>>} :
        FunctionInit(line, <<>>, InitEnv)

Tokenize == FunctionReturns(parse_input(input))

TokSpec == TokInit /\ [][Tokenize]_vars

\* ExpandSpec: expand_variable applied to every token of at most MaxTokenLen
\* characters (parse_input returns no empty token) in every environment.
ExpandInit ==
    \E token \in StringsUpTo(TokenChars, MaxTokenLen) \ {<<>>}, e \in Environments :
        FunctionInit(<<>>, <<token>>, e)

Expand == FunctionReturns(expand_variable(tokens[1], env))

ExpandSpec == ExpandInit /\ [][Expand]_vars

\* PostSpec: process_tokens applied to every list of at most MaxListLen
\* tokens of at most MaxPieceLen characters (parse_input returns no empty
\* token and shell() hands over no empty list) in every environment.
MaxListLen == 2
MaxPieceLen == 2

\* The characters of the tokens process_tokens is applied to.
PieceChars == {DOLLAR, "L", "T"}

\* The environments process_tokens is applied in: values with blanks at both
\* ends and in a row, with a tab only, of one blank, with quotes.
PostEnvs ==
    { <<>>,
      (<<"L">> :> <<SP, "x", SP, TAB, "y", SP>>) @@ (<<"T">> :> <<"x", TAB, "y">>),
      (<<"L">> :> <<SP>>) @@ (<<"T">> :> <<DQ, "x", SP, "y", DQ>>)
          @@ (<<"L", "T">> :> <<"z">>) }

PostInit ==
    \E n \in 1..MaxListLen :
        \E toks \in [1..n -> StringsUpTo(PieceChars, MaxPieceLen) \ {<<>>}], e \in PostEnvs :
            FunctionInit(<<>>, toks, e)

PostProcess == FunctionReturns(process_tokens(tokens, env))

PostSpec == PostInit /\ [][PostProcess]_vars

(***************************************************************************)
(* ScanSpec: the loop of shell() with standard input followed character by *)
(* character, on inputs of blank lines (no token: the cycle ends after      *)
(* parse_input) up to and beyond the field width of scanf.                 *)
(***************************************************************************)
\* How many characters the first line may be short of the field width, and
\* how many more may follow.
MaxShort == 2
MaxExcess == 4

\* What may be typed: spaces up to the field width or a little less, then a
\* few more spaces and tabs, then a newline.
ScanStreams ==
    { [i \in 1..n |-> SP] \o x \o <<"\n">> :
          n \in (ScanWidth - MaxShort)..ScanWidth,
          x \in StringsUpTo({SP, TAB}, MaxExcess) }

\* What scanf("%1023[^\n]") matches at the head of s: the characters before
\* the first newline, ScanWidth of them at most.
ScanMatch(s) ==
    LET newlines == {i \in 1..Len(s) : s[i] = "\n"}
        upto == IF newlines = {} THEN Len(s)
                ELSE (CHOOSE i \in newlines : \A k \in newlines : i <= k) - 1
    IN  SubSeq(s, 1, IF upto <= ScanWidth THEN upto ELSE ScanWidth)

\* getchar(): the stream without its first character, if it has one.
AfterGetchar(s) == IF s = <<>> THEN <<>> ELSE Tail(s)

ScanInit ==
    /\ pc = "prompt"
    /\ hpc = "idle"
    /\ ret = 0
    /\ input = <<>>
    /\ tokens = <<>>
    /\ argv = <<>>
    /\ background = FALSE
    /\ pid = 0
    /\ diag = <<>>
    /\ out = <<>>
    /\ env = InitEnv
    /\ cwd = W_root
    /\ children = <<>>
    /\ sigpending = FALSE
    /\ log = 0
    /\ errno = NoError
    /\ saved_errno = NoError
    /\ stdin \in ScanStreams
    /\ frame = <<>>
    /\ returned = <<>>

\* scanf, getchar, and for a line read parse_input, which finds no token:
\* continue. scanf returns 1 with the characters matched, 0 when the next
\* character is a newline, EOF at the end of input; getchar then takes one
\* character whatever it is. The line is one of spaces and tabs only: the
\* loop of parse_input stores nothing and tokens[0] is NULL.
Scan ==
    /\ pc = "read" /\ MainRuns
    /\ LET matched == ScanMatch(stdin)
           after_scanf == SubSeq(stdin, Len(matched) + 1, Len(stdin))
       IN  /\ ret' = IF matched # <<>> THEN 1 ELSE IF stdin = <<>> THEN -1 ELSE 0
           /\ input' = matched
           /\ stdin' = AfterGetchar(after_scanf)
           /\ {i \in 1..Len(matched) : ~IsBlank(matched[i])} = {}
           /\ tokens' = <<>>
    /\ pc' = "prompt"
    /\ UNCHANGED <<errno, saved_errno, frame, returned, hpc, argv, background, pid,
                   diag, out, env, cwd, children, sigpending, log>>

ScanNext ==
    \/ Prompt
    \/ Scan

ScanSpec == ScanInit /\ [][ScanNext]_vars

(***************************************************************************)
(* ArraySpec: parse_input and then process_tokens, as shell() calls them   *)
(* for a command line, followed store by store: the token arrays have a    *)
(* capacity and every store has an index.                                  *)
(***************************************************************************)
\* How far from a multiple of INIT_TOKENS the number of words of a line is.
MaxAway == 1

\* The line of k words a with one space between two.
WordsLine(k) == [i \in 1..(2 * k - 1) |-> IF i % 2 = 1 THEN "a" ELSE SP]

\* What may be typed: about INIT_TOKENS and about 2 * INIT_TOKENS words,
\* with and without a space at the end.
ArrayLines ==
    { WordsLine(m * INIT_TOKENS + d) \o t :
          m \in {1, 2}, d \in (0 - MaxAway)..MaxAway, t \in {<<>>, <<SP>>} }

\* The locals of parse_input when it is entered. oob: a store so far had an
\* index that was not below the capacity of the array.
ParseFrame ==
    [fn |-> "parse_input", i |-> 1, tokens |-> <<>>, token_index |-> 0,
     tokens_cap |-> INIT_TOKENS, current_token |-> <<>>, in_quotes |-> FALSE,
     oob |-> FALSE]

\* The locals of process_tokens when it is entered.
ProcessFrame ==
    [fn |-> "process_tokens", i |-> 1, new_tokens |-> <<>>, count |-> 0,
     newSize |-> INIT_TOKENS, oob |-> FALSE]

ArrayInit ==
    /\ \E line \in ArrayLines : FunctionInit(line, <<>>, InitEnv)

\* shell() calls parse_input(input).
ParseCall ==
    /\ pc = "call"
    /\ frame' = ParseFrame
    /\ pc' = "parse_input"
    /\ UNCHANGED <<errno, saved_errno, stdin, returned, hpc, ret, input, tokens, argv,
                   background, pid, diag, out, env, cwd, children, sigpending, log>>

\* tokens[token_index++] = strdup(current_token), and the realloc that
\* follows it in the loop when grow is TRUE.
StoreToken(f, grow) ==
    LET stored == [f EXCEPT !.tokens = Append(@, f.current_token),
                            !.oob = @ \/ f.token_index >= f.tokens_cap,
                            !.token_index = @ + 1,
                            !.current_token = <<>>]
    IN  IF grow /\ stored.token_index >= stored.tokens_cap
        THEN [stored EXCEPT !.tokens_cap = @ + INIT_TOKENS]
        ELSE stored

\* One iteration of the for loop of parse_input.
ParseStep ==
    /\ pc = "parse_input"
    /\ frame.i <= Len(input)
    /\ LET c == input[frame.i]
           f == [frame EXCEPT !.i = @ + 1]
       IN  frame' =
               IF c = DQ
               THEN [f EXCEPT !.in_quotes = ~@]
               ELSE IF IsBlank(c) /\ ~f.in_quotes
               THEN IF Len(f.current_token) > 0 THEN StoreToken(f, TRUE) ELSE f
               ELSE [f EXCEPT !.current_token = Append(@, c)]
    /\ UNCHANGED <<errno, saved_errno, stdin, returned, pc, hpc, ret, input, tokens,
                   argv, background, pid, diag, out, env, cwd, children, sigpending,
                   log>>

\* What a store beyond the end of an array may do: nothing that shows (the
\* bytes written were not in use) or damage to the heap or the stack that
\* ends the process.
AfterStores(oob, next) == IF oob THEN {next, "crashed"} ELSE {next}

\* The end of parse_input: the last token is stored if there is one, then
\* the NULL; shell() goes on to process_tokens(tokens).
ParseReturn ==
    /\ pc = "parse_input"
    /\ frame.i > Len(input)
    /\ LET f == IF Len(frame.current_token) > 0 THEN StoreToken(frame, FALSE) ELSE frame
           g == [f EXCEPT !.oob = @ \/ f.token_index >= f.tokens_cap]
       IN  /\ frame' = g
           /\ tokens' = g.tokens
           /\ pc' \in AfterStores(g.oob, "parsed")
    /\ UNCHANGED <<errno, saved_errno, stdin, returned, hpc, ret, input, argv,
                   background, pid, diag, out, env, cwd, children, sigpending, log>>

\* shell() calls process_tokens(tokens).
ProcessCall ==
    /\ pc = "parsed"
    /\ frame' = ProcessFrame
    /\ pc' = "process_tokens"
    /\ UNCHANGED <<errno, saved_errno, stdin, returned, hpc, ret, input, tokens, argv,
                   background, pid, diag, out, env, cwd, children, sigpending, log>>

\* if (count >= newSize) grow; new_tokens[count++] = word, for each word.
RECURSIVE StoreWords(_, _, _)
StoreWords(f, words, k) ==
    IF k > Len(words)
    THEN f
    ELSE LET g == IF f.count >= f.newSize
                  THEN [f EXCEPT !.newSize = @ + INIT_TOKENS]
                  ELSE f
         IN  StoreWords([g EXCEPT !.new_tokens = Append(@, words[k]),
                                  !.oob = @ \/ g.count >= g.newSize,
                                  !.count = @ + 1],
                        words, k + 1)

\* One iteration of the for loop of process_tokens.
ProcessStep ==
    /\ pc = "process_tokens"
    /\ frame.i <= Len(tokens)
    /\ LET expanded == expand_variable(tokens[frame.i], env)
           words == IF HasBlank(expanded)
                    THEN StrtokLoop(expanded, 1, <<>>, <<>>)
                    ELSE <<expanded>>
       IN  frame' = StoreWords([frame EXCEPT !.i = @ + 1], words, 1)
    /\ UNCHANGED <<errno, saved_errno, stdin, returned, pc, hpc, ret, input, tokens,
                   argv, background, pid, diag, out, env, cwd, children, sigpending,
                   log>>

\* The end of process_tokens: the NULL is stored and the array returned.
ProcessReturn ==
    /\ pc = "process_tokens"
    /\ frame.i > Len(tokens)
    /\ LET g == [frame EXCEPT !.oob = @ \/ frame.count >= frame.newSize]
       IN  /\ frame' = g
           /\ returned' = g.new_tokens
           /\ pc' \in AfterStores(g.oob, "return")
    /\ UNCHANGED <<errno, saved_errno, stdin, hpc, ret, input, tokens, argv,
                   background, pid, diag, out, env, cwd, children, sigpending, log>>

ArrayNext ==
    \/ ParseCall
    \/ ParseStep
    \/ ParseReturn
    \/ ProcessCall
    \/ ProcessStep
    \/ ProcessReturn

ArraySpec == ArrayInit /\ [][ArrayNext]_vars

(***************************************************************************)
(* NameSpec: expand_variable followed character by character: the name     *)
(* after a '$' is copied into varname, which has a size.                   *)
(***************************************************************************)
\* How far from VARNAME_SIZE the length of the name in a token is.
MaxNameAway == 2

\* The tokens expand_variable is applied to: x$aaa...a/ with a name of about
\* VARNAME_SIZE characters (a line, and so a token, has up to 1023).
NameTokens ==
    { <<"x", DOLLAR>> \o [i \in 1..n |-> "a"] \o <<"/">> :
          n \in (VARNAME_SIZE - MaxNameAway)..(VARNAME_SIZE + MaxNameAway) }

NameInit ==
    \E token \in NameTokens : FunctionInit(<<>>, <<token>>, InitEnv)

\* expand_variable(tokens[0]) is entered.
ExpandCall ==
    /\ pc = "call"
    /\ frame' = [fn |-> "expand_variable", i |-> 1, result |-> <<>>,
                 varname |-> <<>>, j |-> 0, oob |-> FALSE]
    /\ pc' = "expand_variable"
    /\ UNCHANGED <<errno, saved_errno, stdin, returned, hpc, ret, input, tokens, argv,
                   background, pid, diag, out, env, cwd, children, sigpending, log>>

\* One iteration of the for loop on a character other than '$'.
ExpandChar ==
    /\ pc = "expand_variable"
    /\ frame.i <= Len(tokens[1])
    /\ tokens[1][frame.i] # DOLLAR
    /\ frame' = [frame EXCEPT !.result = Append(@, tokens[1][frame.i]), !.i = @ + 1]
    /\ UNCHANGED <<errno, saved_errno, stdin, returned, pc, hpc, ret, input, tokens,
                   argv, background, pid, diag, out, env, cwd, children, sigpending,
                   log>>

\* The for loop finds a '$': i++, char varname[128], j = 0.
ExpandDollar ==
    /\ pc = "expand_variable"
    /\ frame.i <= Len(tokens[1])
    /\ tokens[1][frame.i] = DOLLAR
    /\ frame' = [frame EXCEPT !.i = @ + 1, !.varname = <<>>, !.j = 0]
    /\ pc' = "varname"
    /\ UNCHANGED <<errno, saved_errno, stdin, returned, hpc, ret, input, tokens, argv,
                   background, pid, diag, out, env, cwd, children, sigpending, log>>

\* One iteration of the while loop: varname[j++] = token[i++].
NameStep ==
    /\ pc = "varname"
    /\ frame.i <= Len(tokens[1]) /\ IsNameChar(tokens[1][frame.i])
    /\ frame' = [frame EXCEPT !.varname = Append(@, tokens[1][frame.i]),
                              !.oob = @ \/ frame.j >= VARNAME_SIZE,
                              !.j = @ + 1, !.i = @ + 1]
    /\ UNCHANGED <<errno, saved_errno, stdin, returned, pc, hpc, ret, input, tokens,
                   argv, background, pid, diag, out, env, cwd, children, sigpending,
                   log>>

\* The while loop ends: varname[j] = 0, i--, getenv, strcat; the for loop
\* then steps i.
NameEnd ==
    /\ pc = "varname"
    /\ ~(frame.i <= Len(tokens[1]) /\ IsNameChar(tokens[1][frame.i]))
    /\ LET p == getenv(env, frame.varname)
           value == IF p = NULL THEN <<>> ELSE p[1]
           g == [frame EXCEPT !.oob = @ \/ frame.j >= VARNAME_SIZE,
                              !.result = @ \o value]
       IN  /\ frame' = g
           /\ pc' \in AfterStores(g.oob, "expand_variable")
    /\ UNCHANGED <<errno, saved_errno, stdin, returned, hpc, ret, input, tokens, argv,
                   background, pid, diag, out, env, cwd, children, sigpending, log>>

\* The for loop ends: return result.
ExpandReturn ==
    /\ pc = "expand_variable"
    /\ frame.i > Len(tokens[1])
    /\ returned' = frame.result
    /\ pc' = "return"
    /\ UNCHANGED <<errno, saved_errno, stdin, frame, hpc, ret, input, tokens, argv,
                   background, pid, diag, out, env, cwd, children, sigpending, log>>

NameNext ==
    \/ ExpandCall
    \/ ExpandChar
    \/ ExpandDollar
    \/ NameStep
    \/ NameEnd
    \/ ExpandReturn

NameSpec == NameInit /\ [][NameNext]_vars

(***************************************************************************)
(* EchoSpec: the echo branch of execute_shell_builtin followed argument by *)
(* argument: the expansions are concatenated into char buffer[MAX_LINE].   *)
(***************************************************************************)
\* The number of arguments of echo, and the length of the value of A.
MaxEchoArgs == 2
MaxValueLen == 512

\* echo $A ... $A, with up to MaxEchoArgs arguments.
EchoTokens ==
    { <<W_echo>> \o [i \in 1..n |-> <<DOLLAR, "A">>] : n \in 1..MaxEchoArgs }

\* A is bound to a value of up to MaxValueLen characters (export A=x...x).
EchoEnvs ==
    { [n \in {<<"A">>} |-> [i \in 1..v |-> "x"]] : v \in 1..MaxValueLen }

EchoInit ==
    \E toks \in EchoTokens, e \in EchoEnvs : FunctionInit(<<>>, toks, e)

\* execute_shell_builtin(tokens) with tokens[1] != NULL: char buffer[] = "".
EchoCall ==
    /\ pc = "call"
    /\ Len(tokens) >= 2
    /\ frame' = [fn |-> "echo", i |-> 2, buffer |-> <<>>, oob |-> FALSE]
    /\ pc' = "echo"
    /\ UNCHANGED <<errno, saved_errno, stdin, returned, hpc, ret, input, tokens, argv,
                   background, pid, diag, out, env, cwd, children, sigpending, log>>

\* strcat(buffer, s) where buffer holds the string b: the string after it,
\* and whether its terminator lies beyond the MAX_LINE bytes of buffer.
Strcat(b, s) == [buffer |-> b \o s, oob |-> Len(b \o s) + 1 > MAX_LINE]

\* One iteration of the for loop of echo.
EchoStep ==
    /\ pc = "echo"
    /\ frame.i <= Len(tokens)
    /\ LET expanded == expand_variable(tokens[frame.i], env)
           first == Strcat(frame.buffer, expanded)
           second == IF frame.i + 1 <= Len(tokens)
                     THEN Strcat(first.buffer, <<SP>>)
                     ELSE first
       IN  frame' = [frame EXCEPT !.buffer = second.buffer,
                                  !.oob = @ \/ first.oob \/ second.oob,
                                  !.i = @ + 1]
    /\ UNCHANGED <<errno, saved_errno, stdin, returned, pc, hpc, ret, input, tokens,
                   argv, background, pid, diag, out, env, cwd, children, sigpending,
                   log>>

\* The for loop ends: printf("%s\n", buffer).
EchoReturn ==
    /\ pc = "echo"
    /\ frame.i > Len(tokens)
    /\ out' = <<frame.buffer \o <<"\n">>>>
    /\ pc' \in AfterStores(frame.oob, "return")
    /\ UNCHANGED <<errno, saved_errno, stdin, frame, returned, hpc, ret, input, tokens,
                   argv, background, pid, diag, env, cwd, children, sigpending, log>>

EchoNext ==
    \/ EchoCall
    \/ EchoStep
    \/ EchoReturn

EchoSpec == EchoInit /\ [][EchoNext]_vars

(***************************************************************************)
(* Properties of the launcher and the handler.                             *)
(***************************************************************************)
\* The last token of the post-processed list of this cycle is "&".
LastIsAmp ==
    LET p == process_tokens(tokens, env) IN
    Len(p) > 0 /\ p[Len(p)] = W_amp

\* C1: a command whose last post-processed token is not "&" is launched in
\* the foreground, and as long as a foreground child has not terminated the
\* main loop is inside the wait for that child: it is not at the top of the
\* loop and prints no prompt, whatever the handler and the other children do.
C1_ForegroundOrdering ==
    /\ (pid \in Forked /\ ~LastIsAmp) => ~children[pid].bg
    /\ \A c \in Forked :
         (~children[c].bg /\ children[c].state = "running")
             => (pc = "wait" /\ pid = c)

\* The launcher is back from a foreground wait that the handler interrupted:
\* the handler collected a background child and the foreground child.
C1_Witness ==
    /\ pc = "prompt" /\ pid \in Forked /\ ~background
    /\ children[pid].state = "reaped" /\ children[pid].by = "reaper"
    /\ \E c \in Forked : children[c].bg /\ children[c].by = "reaper"

\* C2: when the last token of the post-processed list is "&", the child is
\* launched with the background flag, its argv is the list without that
\* token, and the launcher does not wait: the main loop is never in the wait
\* for a background child.
C2_BackgroundLaunch ==
    /\ (pid \in Forked /\ LastIsAmp) =>
         LET p == process_tokens(tokens, env) IN
         /\ background
         /\ children[pid].bg
         /\ argv = SubSeq(p, 1, Len(p) - 1)
         /\ pc # "wait"
    /\ pc = "wait" => ~children[pid].bg

\* The prompt is printed while MaxChildren background children are running.
C2_Witness ==
    /\ pc = "read"
    /\ Cardinality({c \in Forked :
           children[c].bg /\ children[c].state = "running"}) >= MaxChildren

\* C3: between two runs of the handler the number of lines in the log is the
\* number of background children collected; the handler collects background
\* children only and a foreground child is collected by the launcher.
C3_LogCountsBackground ==
    /\ hpc = "idle" =>
         log = Cardinality({c \in Forked :
                   children[c].bg /\ children[c].state = "reaped"})
    /\ \A c \in Forked :
         children[c].state = "reaped" =>
             (children[c].by = "reaper" <=> children[c].bg)

\* C4: when the launcher is back from a foreground wait, stderr holds the
\* signal diagnostic with the child's signal number if the child was killed
\* by a signal, and nothing if the child exited.
C4_ForegroundDiagnostic ==
    (pc = "prompt" /\ pid \in Forked /\ ~background) =>
        LET st == children[pid].st IN
        diag = IF WIFSIGNALED(st)
               THEN <<Msg("Child terminated abnormally by signal", WTERMSIG(st))>>
               ELSE <<>>

\* C5: every child that has terminated is eventually collected, by the
\* handler or by the launcher, unless the session ends first.
C5_EveryZombieCollected ==
    \A c \in 1..MaxChildren :
        (c \in Forked /\ children[c].state = "zombie")
            ~> ((c \in Forked /\ children[c].state = "reaped") \/ pc = "done")

\* One run of the handler, started while the main loop is in a foreground
\* wait, has collected two children.
C5_Witness ==
    /\ pc = "wait" /\ hpc = "loop" /\ ~sigpending
    /\ Cardinality({c \in Forked : children[c].by = "reaper"}) >= 2

\* C8: a cycle that called the launcher handed it an argv with a first token.
C8_ArgvHasProgram ==
    (ret = 1 /\ pid # 0) => Len(argv) >= 1

(***************************************************************************)
(* Properties of the environment and of the end of the session.            *)
(***************************************************************************)
\* A name as the data model has it: letters, digits and underscores.
IsIdentifier(n) ==
    Len(n) > 0 /\ \A i \in 1..Len(n) : n[i] \in Letters \cup Digits \cup {"_"}

\* The first '=' of arg is at k and a name stands before it.
SplitsAt(arg, k) ==
    k \in 2..Len(arg) /\ arg[k] = "=" /\ \A j \in 1..(k - 1) : arg[j] # "="

\* The step is a cycle that runs export NAME=VALUE with a non-empty NAME.
RunsExport ==
    /\ pc = "read" /\ ret' = 1
    /\ Len(tokens') >= 2 /\ tokens'[1] = W_export
    /\ \E k \in 1..Len(tokens'[2]) : SplitsAt(tokens'[2], k)

C6_Step ==
    /\ ~RunsExport => env' = env
    /\ RunsExport =>
         LET arg == tokens'[2]
             k == CHOOSE k \in 1..Len(arg) : SplitsAt(arg, k)
             NAME == SubSeq(arg, 1, k - 1)
             VALUE == SubSeq(arg, k + 1, Len(arg))
         IN  /\ DOMAIN env' = DOMAIN env \cup {NAME}
             /\ env'[NAME] = VALUE
             /\ \A n \in DOMAIN env : n # NAME => env'[n] = env[n]
    /\ \A n \in DOMAIN env' :
         IsIdentifier(n) => expand_variable(<<DOLLAR>> \o n, env') = env'[n]
    /\ \A c \in DOMAIN children' \ DOMAIN children : children'[c].env = env'

\* C6: the environment changes only in a cycle that runs export NAME=VALUE
\* (NAME what stands before the first '='), which binds NAME to VALUE and
\* changes no other binding; in every state the expansion of $NAME, for a
\* NAME of letters, digits and underscores, is the value NAME is bound to;
\* a child inherits the bindings as they are when it is forked.
C6_ExportPersists == [][C6_Step]_vars

\* A was exported as exit, then again with a value that holds '=' and '$',
\* and a later cycle has launched $A: its argv is that value and the child,
\* still running, has the binding.
C6_Witness ==
    /\ <<"A">> \in DOMAIN env /\ env[<<"A">>] = <<"a","=","$","A">>
    /\ pid \in Forked /\ tokens = <<<<"$","A">>>>
    /\ argv = <<<<"a","=","$","A">>>>
    /\ children[pid].state = "running"
    /\ children[pid].env = env

C7_Step ==
    /\ (pc = "read" /\ pc' # "read") =>
         (pc' = "done" <=>
             /\ ret' = 1
             /\ parse_input(input') # <<>>
             /\ parse_input(input')[1] = W_exit)
    /\ pc # "read" => (pc' = "done" <=> pc = "done")

\* C7: a cycle ends the session exactly when scanf read a line whose first
\* token, as parse_input returns it, is exit; no other step ends it, and
\* once ended the session takes no further step of the loop.
C7_ExitOnly == [][C7_Step]_vars

\* The session ended on "exit x" after A had been exported as exit and a
\* command had been forked.
C7_Witness ==
    /\ pc = "done" /\ Len(tokens) = 2
    /\ <<"A">> \in DOMAIN env /\ env[<<"A">>] = W_exit
    /\ Forked # {}

(***************************************************************************)
(* Properties of the tokenizer and of the expander.                        *)
(***************************************************************************)
\* The character at i stands inside double quotes: an odd number of quote
\* characters stands before it.
InsideQuotes(line, i) ==
    Cardinality({k \in 1..(i - 1) : line[k] = DQ}) % 2 = 1

\* The character at i is a space or a tab outside double quotes.
IsSeparator(line, i) ==
    line[i] \in {SP, TAB} /\ ~InsideQuotes(line, i)

\* The positions where a maximal run of characters that are not separators
\* starts, and where the run that starts at s ends.
RunStarts(line) ==
    {s \in 1..Len(line) :
        ~IsSeparator(line, s) /\ (s = 1 \/ IsSeparator(line, s - 1))}

RunEnd(line, s) ==
    CHOOSE e \in s..Len(line) :
        /\ \A k \in s..e : ~IsSeparator(line, k)
        /\ e = Len(line) \/ IsSeparator(line, e + 1)

\* The runs in order, every quote character removed, the empty ones dropped.
ExpectedTokens(line) ==
    LET starts == RunStarts(line)
        nth(i) == CHOOSE s \in starts : Cardinality({t \in starts : t < s}) = i - 1
        runs == [i \in 1..Cardinality(starts) |->
                    SelectSeq(SubSeq(line, nth(i), RunEnd(line, nth(i))),
                              LAMBDA c : c # DQ)]
    IN  SelectSeq(runs, LAMBDA t : t # <<>>)

\* C9: parse_input returns, in order, the maximal runs of characters between
\* the spaces and tabs outside double quotes, every quote character removed
\* and the empty results left out; no token is empty; and when a quote is
\* left open the last token ends with all that follows the last quote.
C9_Tokenizer ==
    pc = "return" =>
        /\ returned = ExpectedTokens(input)
        /\ \A i \in 1..Len(returned) : returned[i] # <<>>
        /\ LET quotes == {k \in 1..Len(input) : input[k] = DQ}
               last == CHOOSE q \in quotes : \A k \in quotes : k <= q
               rest == SubSeq(input, last + 1, Len(input))
           IN  (Cardinality(quotes) % 2 = 1 /\ rest # <<>>) =>
                   /\ returned # <<>>
                   /\ LET t == returned[Len(returned)] IN
                      /\ Len(t) >= Len(rest)
                      /\ SubSeq(t, Len(t) - Len(rest) + 1, Len(t)) = rest

\* The line  a " b  gives the tokens a and " b" (a space kept, quote open).
C9_Witness ==
    /\ pc = "return"
    /\ input = <<"a", SP, DQ, SP, "b">>
    /\ returned = <<<<"a">>, <<SP, "b">>>>

\* What the token becomes: up to the first '$' unchanged, then the value of
\* the longest name that follows it (nothing if unset), then the rest of
\* the token treated the same way; the values are not looked at again.
RECURSIVE ExpectedExpansion(_, _)
ExpectedExpansion(token, e) ==
    LET dollars == {i \in 1..Len(token) : token[i] = DOLLAR} IN
    IF dollars = {}
    THEN token
    ELSE LET d == CHOOSE i \in dollars : \A k \in dollars : i <= k
             rest == SubSeq(token, d + 1, Len(token))
             lens == {k \in 0..Len(rest) :
                         \A j \in 1..k : rest[j] \in Letters \cup Digits \cup {"_"}}
             n == CHOOSE k \in lens : \A m \in lens : m <= k
             name == SubSeq(rest, 1, n)
             value == IF name \in DOMAIN e THEN e[name] ELSE <<>>
         IN  SubSeq(token, 1, d - 1) \o value
                 \o ExpectedExpansion(SubSeq(rest, n + 1, Len(rest)), e)

\* C10: expand_variable returns the token with every '$' and the longest
\* name after it replaced by the value of that name (nothing if unset or if
\* the name is empty), the other characters unchanged and in order, values
\* not expanded again; a token without '$' is returned as it is.
C10_Expander ==
    pc = "return" =>
        /\ returned = ExpectedExpansion(tokens[1], env)
        /\ (\A i \in 1..Len(tokens[1]) : tokens[1][i] # DOLLAR) => returned = tokens[1]

\* $a_/$ where a_ is "y z" and a is "x": the longest name is looked up, its
\* blank is kept, the bare '$' leaves nothing.
C10_Witness ==
    /\ pc = "return"
    /\ tokens = <<<<DOLLAR, "a", "_", "/", DOLLAR>>>>
    /\ returned = <<"y", " ", "z", "/">>

(***************************************************************************)
(* Properties of the post-processor.                                       *)
(***************************************************************************)
\* The words of s: its maximal runs of characters that are neither a space
\* nor a tab, in order.
WordsOf(s) ==
    LET blank(i) == s[i] = SP \/ s[i] = TAB
        starts == {b \in 1..Len(s) : ~blank(b) /\ (b = 1 \/ blank(b - 1))}
        end(b) == CHOOSE f \in b..Len(s) :
                      /\ \A k \in b..f : ~blank(k)
                      /\ f = Len(s) \/ blank(f + 1)
        nth(i) == CHOOSE b \in starts : Cardinality({t \in starts : t < b}) = i - 1
    IN  [i \in 1..Cardinality(starts) |-> SubSeq(s, nth(i), end(nth(i)))]

\* The piece one token contributes.
PieceOf(token, e) ==
    LET x == expand_variable(token, e) IN
    IF \A i \in 1..Len(x) : x[i] # SP /\ x[i] # TAB THEN <<x>> ELSE WordsOf(x)

\* The pieces of the tokens, one after the other.
RECURSIVE PiecesOf(_, _)
PiecesOf(toks, e) ==
    IF toks = <<>> THEN <<>>
    ELSE PiecesOf(SubSeq(toks, 1, Len(toks) - 1), e) \o PieceOf(toks[Len(toks)], e)

\* C11: process_tokens returns the pieces of its tokens in input order, the
\* piece of a token being its expansion when that has no space or tab and
\* the words of the expansion otherwise; no token returned holds a space or
\* a tab.
C11_PostProcessor ==
    pc = "return" =>
        /\ returned = PiecesOf(tokens, env)
        /\ \A i \in 1..Len(returned) :
             \A k \in 1..Len(returned[i]) : returned[i][k] \notin {SP, TAB}
        /\ \A i \in 1..Len(tokens) :
             expand_variable(tokens[i], env) = <<SP, "x", SP, TAB, "y", SP>>
                 => PieceOf(tokens[i], env) = <<<<"x">>, <<"y">>>>

\* The list $T, $L where T is x<tab>y and L is " x <tab>y ": four tokens,
\* x, y, x, y.
C11_Witness ==
    /\ pc = "return"
    /\ tokens = <<<<DOLLAR, "T">>, <<DOLLAR, "L">>>>
    /\ returned = <<<<"x">>, <<"y">>, <<"x">>, <<"y">>>>

(***************************************************************************)
(* Properties of the built-ins.                                            *)
(***************************************************************************)
\* The step reads a line whose first token, as the tokenizer returns it, is
\* cd, echo or export.
ReadsBuiltinLine ==
    /\ pc = "read" /\ ret' = 1
    /\ parse_input(input') # <<>>
    /\ parse_input(input')[1] \in {<<"c","d">>, <<"e","c","h","o">>, <<"e","x","p","o","r","t">>}

C12_Step ==
    ReadsBuiltinLine =>
        /\ children' = children
        /\ pid' = 0 /\ background' = FALSE /\ argv' = <<>>
        /\ pc' = "prompt"

\* C12: a cycle whose first tokenizer token is cd, echo or export forks no
\* child, sets no background flag and does not wait, whatever the line ends
\* with: the children are the same after the cycle as before and the main
\* loop is back at the prompt.
C12_BuiltinNoFork == [][C12_Step]_vars

\* echo  $A b & has run while a background child is running: it printed
\* its arguments, & included, and the child is the only one.
C12_Witness ==
    /\ pc = "prompt" /\ pid = 0
    /\ tokens # <<>> /\ tokens[1] = W_echo /\ tokens[Len(tokens)] = W_amp
    /\ out = <<<<"x", SP, TAB, "y", SP, "b", SP, "&", "\n">>>>
    /\ Len(children) = 1 /\ children[1].state = "running"

\* The step reads a line whose first token is cd.
ReadsCdLine ==
    /\ pc = "read" /\ ret' = 1
    /\ parse_input(input') # <<>>
    /\ parse_input(input')[1] = <<"c","d">>

\* The directory a cd with these tokens is to enter, as a pointer: NULL when
\* there is none (~suffix and no HOME).
CdTarget(toks, e) ==
    LET home == <<"H","O","M","E">>
        arg == toks[2]
    IN  IF Len(toks) = 1 \/ arg = <<"~">>
        THEN IF home \in DOMAIN e THEN <<e[home]>> ELSE <<<<"/">>>>
        ELSE IF arg[1] = "~"
        THEN IF home \in DOMAIN e
             THEN <<e[home] \o SubSeq(arg, 2, Len(arg))>>
             ELSE NULL
        ELSE <<arg>>

C13_Step ==
    ReadsCdLine =>
        LET target == CdTarget(parse_input(input'), env)
            entered == IF target = NULL THEN NULL ELSE chdir(cwd, target[1])
        IN  /\ cwd' = IF entered = NULL THEN cwd ELSE entered[1]
            /\ entered = NULL <=> diag' # <<>>
            /\ env' = env
            /\ pc' = "prompt"

\* C13: a cd cycle leaves the working directory at its target when the
\* target can be entered and as it was otherwise, with a message on stderr
\* exactly in the second case; the target is HOME (or / without HOME) for no
\* argument and for ~, HOME followed by the suffix for ~suffix (none without
\* HOME), the argument as it was typed otherwise; the cycle returns to the
\* prompt in every case.
C13_ChangeDirectory == [][C13_Step]_vars

\* cd ~/d has entered /h/d from another directory.
C13_Witness ==
    /\ pc = "prompt"
    /\ tokens = <<<<"c","d">>, <<"~","/","d">>>>
    /\ cwd = <<"/","h","/","d">> /\ diag = <<>>

\* The step reads an export line with no argument, or whose first argument
\* holds no '='.
ReadsBadExport ==
    /\ pc = "read" /\ ret' = 1
    /\ parse_input(input') # <<>>
    /\ LET toks == parse_input(input') IN
       /\ toks[1] = <<"e","x","p","o","r","t">>
       /\ Len(toks) = 1 \/ \A i \in 1..Len(toks[2]) : toks[2][i] # "="

C14_Step ==
    ReadsBadExport =>
        /\ Len(diag') = 1
        /\ diag'[1].msg \in {"export: missing argument", "export: invalid argument"}
        /\ diag'[1].msg = "export: missing argument" <=> Len(parse_input(input')) = 1
        /\ env' = env
        /\ cwd' = cwd
        /\ pc' = "prompt"

\* C14: an export cycle with no argument, or whose first argument holds no
\* '=', writes one usage message to stderr (missing argument in the first
\* case, invalid argument in the second), changes no binding and not the
\* working directory, and returns to the prompt.
C14_ExportUsage == [][C14_Step]_vars

\* export A & has failed after A was exported, in a directory entered by cd.
C14_Witness ==
    /\ pc = "prompt"
    /\ tokens = <<W_export, <<"A">>, W_amp>>
    /\ diag = <<Msg("export: invalid argument", 0)>>
    /\ <<"A">> \in DOMAIN env /\ env[<<"A">>] = <<"x", SP, TAB, "y">>
    /\ cwd = <<"/","h","/","d">>

\* The step reads a line whose first token is echo.
ReadsEchoLine ==
    /\ pc = "read" /\ ret' = 1
    /\ parse_input(input') # <<>>
    /\ parse_input(input')[1] = <<"e","c","h","o">>

\* The expansions of the arguments, each taken on its own, one space between.
RECURSIVE JoinExpanded(_, _)
JoinExpanded(args, e) ==
    IF Len(args) = 1
    THEN expand_variable(args[1], e)
    ELSE JoinExpanded(SubSeq(args, 1, Len(args) - 1), e)
             \o <<" ">> \o expand_variable(args[Len(args)], e)

C15_Step ==
    ReadsEchoLine =>
        LET toks == parse_input(input') IN
        /\ out' = IF Len(toks) = 1
                  THEN <<>>
                  ELSE <<JoinExpanded(Tail(toks), env) \o <<"\n">>>>
        /\ diag' = <<>>
        /\ pc' = "prompt"

\* C15: an echo cycle with arguments prints one line: the expand_variable
\* result of each argument, in order, blanks inside an expansion kept, one
\* space between two arguments, one newline at the end; an echo cycle
\* without argument prints nothing.
C15_EchoOutput == [][C15_Step]_vars

\* echo "a  b"$A has printed the two quoted spaces and the space and tab of
\* the value of A.
C15_Witness ==
    /\ pc = "prompt"
    /\ tokens = <<W_echo, <<"a", SP, SP, "b", DOLLAR, "A">>>>
    /\ out = <<<<"a", SP, SP, "b", "x", SP, TAB, "y", "\n">>>>

(***************************************************************************)
(* Properties of the read.                                                 *)
(***************************************************************************)
\* The number of characters of s before its first newline.
LineLength(s) ==
    Cardinality({i \in 1..Len(s) : \A k \in 1..i : s[k] # "\n"})

C16_Step ==
    (pc = "read" /\ pc' = "prompt" /\ LineLength(stdin) > 1023) =>
        /\ ret' = 1
        /\ input' = SubSeq(stdin, 1, 1023)
        /\ stdin' = SubSeq(stdin, 1024, Len(stdin))

\* C16: a read that finds a line of more than 1023 characters takes the
\* first 1023 of them, and all that follows them is still unread after it,
\* the 1024th character first.
C16_ExcessKept == [][C16_Step]_vars

(***************************************************************************)
(* Properties of the handler's frame.                                      *)
(***************************************************************************)
C17_Step ==
    /\ (hpc = "idle" /\ hpc' = "loop") =>
           /\ saved_errno' = errno
           /\ errno' = errno /\ env' = env /\ cwd' = cwd
    /\ (hpc = "loop" /\ hpc' = "loop") =>
           /\ saved_errno' = saved_errno
           /\ env' = env /\ cwd' = cwd
    /\ (hpc = "loop" /\ hpc' = "idle") =>
           /\ errno' = saved_errno
           /\ env' = env /\ cwd' = cwd
    /\ hpc = "loop" => (pc' = pc /\ diag' = diag)

\* C17: the handler starts with errno, the environment and the working
\* directory as the main loop left them and keeps that errno aside; while it
\* runs, whatever it collects and whether or not the log can be opened, the
\* value kept aside, the environment and the working directory do not
\* change and the main loop takes no step; when it returns errno is the
\* value kept aside. So the three are at its return what they were when it
\* was invoked.
C17_HandlerFrame == [][C17_Step]_vars

\* The handler has interrupted the main loop in scanf after a failed cd: it
\* has collected a child and could not open the log, errno is no longer
\* what it was, and the shell is in a directory and an environment other
\* than the first.
C17_Witness ==
    /\ hpc = "loop" /\ pc = "read"
    /\ saved_errno = ENOENT /\ errno = EACCES
    /\ log = 0 /\ \E c \in Forked : children[c].by = "reaper"
    /\ cwd = <<"/","h","/","d">> /\ <<"A">> \in DOMAIN env

(***************************************************************************)
(* Properties of the buffers.                                              *)
(***************************************************************************)
\* C18: in parse_input and in process_tokens every store into the token
\* array, the store of the NULL included, has an index below the capacity
\* the array has at that moment.
C18_StoresInBounds ==
    pc \in {"parse_input", "parsed", "process_tokens", "return", "crashed"} => ~frame.oob

\* C19: in expand_variable every store into varname, the store of the
\* terminator included, has an index below 128.
C19_NameInBounds ==
    pc \in {"expand_variable", "varname", "return", "crashed"} => ~frame.oob

\* C20: in echo the string built in buffer, its terminator included, never
\* takes more than the MAX_LINE bytes of buffer.
C20_EchoFits ==
    pc \in {"echo", "return", "crashed"} =>
        /\ Len(frame.buffer) + 1 <= 1024
        /\ ~frame.oob

=============================================================================
